---- MODULE Spec2Model ----
(***************************************************************************)
(* Model of pesa_min_y_clase.py: minimum calibration mass and selection    *)
(* of a standard-weight accuracy class from an OIML R111 style MPE table.  *)
(*                                                                         *)
(* Number representation (Python floats become integers):                  *)
(*   masses (mass_g, table keys)      grams                                *)
(*   MPE values, umbral_mpe_mg        tenths of a milligram (1.2 mg = 12)  *)
(*   s, d, s_eff, u_bal, m_min        micrograms (0.005 g = 5000)          *)
(*   umbral_std_g, u_std_g            tenths of a microgram                *)
(*   r_rel                            thousandths (0.001 = 1)              *)
(* Python's None for an optional number is the value None below; the       *)
(* numbers the model feeds in are all >= 0 where None is possible.         *)
(* An optional table is a set: {} for None, {t} for the table t.           *)
(* A table is a function from its keys to rows, a row a function from the  *)
(* class labels present in it to MPE values.                               *)
(***************************************************************************)
EXTENDS Integers, Sequences, FiniteSets, TLC

\* Number of rows of the generated tables (keys 10, 100, ...).
MaxRows == 2

None == 0 - 1
NoClass == "None"
NoExc == "None"

(***************************************************************************)
(* Arithmetic: math.sqrt, math.log10 and 10 ** x in fixed point.           *)
(***************************************************************************)

\* Float division a / b for b # 0, truncated to an integer, sign kept.
truediv(a, b) ==
  IF b > 0
    THEN (IF a >= 0 THEN a \div b ELSE 0 - ((0 - a) \div b))
    ELSE (IF a >= 0 THEN 0 - (a \div (0 - b)) ELSE (0 - a) \div (0 - b))

RECURSIVE sqrt_search(_, _, _)
sqrt_search(n, lo, hi) ==
  IF lo >= hi THEN lo
  ELSE LET mid == (lo + hi + 1) \div 2
       IN IF mid * mid <= n THEN sqrt_search(n, mid, hi)
                            ELSE sqrt_search(n, lo, mid - 1)

\* math.sqrt on a non-negative integer below 2^30: the integer square root.
sqrt(n) == sqrt_search(n, 0, 32767)

RECURSIVE floor_log2(_)
floor_log2(n) == IF n < 2 THEN 0 ELSE 1 + floor_log2(n \div 2)

RECURSIVE log2_frac(_, _, _)
\* The next fractional bits of log2 of the mantissa m in [2^14, 2^15),
\* by repeated squaring.
log2_frac(m, bits, acc) ==
  IF bits = 0 THEN acc
  ELSE LET sq == (m * m) \div (2^14)
       IN IF sq >= 2^15 THEN log2_frac(sq \div 2, bits - 1, 2 * acc + 1)
                        ELSE log2_frac(sq, bits - 1, 2 * acc)

\* log2(n) in units of 1/256, n >= 1.
log2(n) ==
  LET e == floor_log2(n)
      m == IF e >= 14 THEN n \div (2^(e - 14)) ELSE n * (2^(14 - e))
  IN e * 256 + log2_frac(m, 8, 0)

\* math.log10(n) in units of 1/256 (log10(2) = 1233/4096), n >= 1.
log10(n) == (log2(n) * 1233) \div 4096

RECURSIVE pow10_search(_, _, _)
pow10_search(z, lo, hi) ==
  IF lo >= hi THEN lo
  ELSE LET mid == (lo + hi + 1) \div 2
       IN IF log10(mid) <= z THEN pow10_search(z, mid, hi)
                             ELSE pow10_search(z, lo, mid - 1)

\* 10 ** z for z in units of 1/256, z >= 0: the largest integer whose log10 is
\* at most z.
pow10(z) == pow10_search(z, 1, 2^21)

(***************************************************************************)
(* Tables.                                                                 *)
(***************************************************************************)

CLASSES_ORDER == <<"E2", "F1", "F2", "M1", "M2", "M3">>

\* One row of a table with the six classes of the built-in table.
row6(e2, f1, f2, m1, m2, m3) ==
  [c \in {"E2", "F1", "F2", "M1", "M2", "M3"} |->
     CASE c = "E2" -> e2 [] c = "F1" -> f1 [] c = "F2" -> f2
       [] c = "M1" -> m1 [] c = "M2" -> m2 [] c = "M3" -> m3]

\* The built-in table, MPE in tenths of a milligram.
MPE_TABLE_EXAMPLE_MG ==
  [m \in {1, 2, 5, 10, 20, 50, 100, 200, 500, 1000, 2000, 5000, 10000, 20000, 50000} |->
     CASE m = 1 -> row6(10, 30, 100, 500, 1500, 5000)
       [] m = 2 -> row6(12, 35, 120, 600, 1800, 6000)
       [] m = 5 -> row6(15, 40, 150, 750, 2250, 7500)
       [] m = 10 -> row6(20, 50, 200, 1000, 3000, 10000)
       [] m = 20 -> row6(30, 80, 300, 1500, 4500, 15000)
       [] m = 50 -> row6(50, 120, 500, 2500, 7500, 25000)
       [] m = 100 -> row6(80, 200, 800, 4000, 12000, 40000)
       [] m = 200 -> row6(120, 300, 1200, 6000, 18000, 60000)
       [] m = 500 -> row6(200, 500, 2000, 10000, 30000, 100000)
       [] m = 1000 -> row6(300, 800, 3000, 15000, 45000, 150000)
       [] m = 2000 -> row6(500, 1200, 5000, 25000, 75000, 250000)
       [] m = 5000 -> row6(800, 2000, 8000, 40000, 120000, 400000)
       [] m = 10000 -> row6(1200, 3000, 12000, 60000, 180000, 600000)
       [] m = 20000 -> row6(2000, 5000, 20000, 100000, 300000, 1000000)
       [] m = 50000 -> row6(3000, 8000, 30000, 150000, 450000, 1500000)]

(***************************************************************************)
(* The library functions.                                                  *)
(***************************************************************************)

\* s_efectiva(s, d, incluir_resolucion): d is None or a number.
s_efectiva(s, d, incluir_resolucion) ==
  IF incluir_resolucion /\ d # None
    THEN sqrt(s * s + (d * d) \div 12)
    ELSE s

\* masa_minima(s, d, r_rel, k, incluir_resolucion): the result in micrograms,
\* or ZeroDivisionError. r_rel is in thousandths, hence the factor 1000.
masa_minima(s, d, r_rel, k, incluir_resolucion) ==
  LET s_eff == s_efectiva(s, d, incluir_resolucion)
  IN IF r_rel = 0
       THEN [exc |-> "ZeroDivisionError", val |-> None]
       ELSE [exc |-> NoExc, val |-> truediv(k * s_eff * 1000, r_rel)]

RECURSIVE sorted(_)
\* sorted(keys): the ascending sequence of a finite set of numbers.
sorted(S) ==
  IF S = {} THEN <<>>
  ELSE LET lo == CHOOSE x \in S : \A y \in S : x <= y
       IN <<lo>> \o sorted(S \ {lo})

\* bisect.bisect_left(xs, v) as a 0-based index: the number of entries below v.
bisect_left(xs, v) == Cardinality({j \in 1..Len(xs) : xs[j] < v})

\* row_get with a slip: a class missing in the row is taken from another
\* class of the row.
row_get_sustituye(fila, clase) ==
  IF clase \in DOMAIN fila THEN fila[clase]
  ELSE IF DOMAIN fila # {} THEN fila[CHOOSE c \in DOMAIN fila : TRUE]
  ELSE None

\* dict.get(clase) on a row.
row_get(fila, clase) == IF clase \in DOMAIN fila THEN fila[clase] ELSE None

\* mpe_mg_para(mass_g, clase, tabla): the MPE or None. xs is 1-based here, so
\* Python's xs[i - 1], xs[i] are xs[i], xs[i + 1].
mpe_mg_para(mass_g, clase, tabla) ==
  IF mass_g \in DOMAIN tabla /\ clase \in DOMAIN tabla[mass_g]
    THEN tabla[mass_g][clase]
  ELSE
    LET xs == sorted(DOMAIN tabla)
    IN IF xs = <<>> \/ mass_g < xs[1] \/ mass_g > xs[Len(xs)]
         THEN None
       ELSE
         LET i == bisect_left(xs, mass_g)
         IN IF i = 0 \/ i = Len(xs)
              THEN None
            ELSE
              LET x0 == xs[i]
                  x1 == xs[i + 1]
                  y0 == row_get(tabla[x0], clase)
                  y1 == row_get(tabla[x1], clase)
              IN IF y0 = None \/ y1 = None
                   THEN None
                 ELSE pow10(log10(y0)
                        + ((log10(mass_g) - log10(x0)) * (log10(y1) - log10(y0)))
                            \div (log10(x1) - log10(x0)))

\* u_std_g = mpe_mg / 1000.0 / math.sqrt(3.0), in tenths of a microgram
\* (1 / sqrt(3) = 0.577).
u_std_g_of(mpe_mg) == mpe_mg * 577

RECURSIVE scan_clases(_, _, _, _, _, _, _)
\* The for loop of seleccionar_clase_pesa from position i of clases_orden.
\* probed lists the classes mpe_mg_para was called for; basis is the branch
\* whose comparison returned the class.
scan_clases(i, mass_g, umbral_std_g, umbral_mpe_mg, tabla, clases_orden, probed) ==
  IF i > Len(clases_orden)
    THEN [exc |-> NoExc, ret |-> NoClass, probed |-> probed, basis |-> "None"]
  ELSE
    LET clase == clases_orden[i]
        mpe_mg == mpe_mg_para(mass_g, clase, tabla)
        seen == Append(probed, clase)
    IN IF mpe_mg = None
         THEN scan_clases(i + 1, mass_g, umbral_std_g, umbral_mpe_mg, tabla,
                          clases_orden, seen)
       ELSE IF umbral_mpe_mg # None
         THEN IF mpe_mg <= umbral_mpe_mg
                THEN [exc |-> NoExc, ret |-> clase, probed |-> seen, basis |-> "mpe"]
                ELSE scan_clases(i + 1, mass_g, umbral_std_g, umbral_mpe_mg, tabla,
                                 clases_orden, seen)
       ELSE IF u_std_g_of(mpe_mg) <= umbral_std_g
                THEN [exc |-> NoExc, ret |-> clase, probed |-> seen, basis |-> "std"]
                ELSE scan_clases(i + 1, mass_g, umbral_std_g, umbral_mpe_mg, tabla,
                                 clases_orden, seen)

\* tabla_mpe_mg or MPE_TABLE_EXAMPLE_MG: None and the empty dict are falsy.
tabla_or_example(tabla_mpe_mg) ==
  IF tabla_mpe_mg = {} THEN MPE_TABLE_EXAMPLE_MG
  ELSE LET t == CHOOSE x \in tabla_mpe_mg : TRUE
       IN IF DOMAIN t = {} THEN MPE_TABLE_EXAMPLE_MG ELSE t

\* seleccionar_clase_pesa with a slip: the check that a threshold is given
\* comes after the scan.
seleccionar_sin_guarda(mass_g, umbral_std_g, umbral_mpe_mg, tabla_mpe_mg, clases_orden) ==
  LET r == scan_clases(1, mass_g, umbral_std_g, umbral_mpe_mg,
                       tabla_or_example(tabla_mpe_mg), clases_orden, <<>>)
  IN IF umbral_mpe_mg = None /\ umbral_std_g = None
       THEN [exc |-> "ValueError", ret |-> NoClass, probed |-> r.probed, basis |-> "None"]
       ELSE r

\* seleccionar_clase_pesa(mass_g, umbral_std_g, umbral_mpe_mg, tabla_mpe_mg,
\* clases_orden): the class, NoClass, or ValueError.
seleccionar_clase_pesa(mass_g, umbral_std_g, umbral_mpe_mg, tabla_mpe_mg, clases_orden) ==
  LET tabla == tabla_or_example(tabla_mpe_mg)
  IN IF umbral_mpe_mg = None /\ umbral_std_g = None
       THEN [exc |-> "ValueError", ret |-> NoClass, probed |-> <<>>, basis |-> "None"]
       ELSE scan_clases(1, mass_g, umbral_std_g, umbral_mpe_mg, tabla, clases_orden, <<>>)

(***************************************************************************)
(* The CSV loader. A file is the sequence of its data rows; a cell is a    *)
(* number (text float() accepts), BLANK (empty, or missing: None) or       *)
(* NOT_A_NUMBER (text float() rejects).                                    *)
(***************************************************************************)

BLANK == 0 - 1
NOT_A_NUMBER == 0 - 2
NoPath == "None"

\* A data row of a file: the mass_g cell and the cells of the class columns.
csv_row(mass_cell, cells) == [mass_g |-> mass_cell, cells |-> cells]

\* The files of the model: a header-only file, a table with blank cells, and a
\* file with a cell that is no number.
csv_file(path) ==
  CASE path = "vacia.csv" -> <<>>
    [] path = "tabla.csv" ->
         <<csv_row(1000, [c \in {"E1", "E2", "F1", "M1"} |->
                            CASE c = "E1" -> BLANK [] c = "E2" -> 400
                              [] c = "F1" -> 900 [] c = "M1" -> 20000]),
           csv_row(4000, [c \in {"E1", "E2", "F1", "M1"} |->
                            CASE c = "E1" -> BLANK [] c = "E2" -> 700
                              [] c = "F1" -> BLANK [] c = "M1" -> 30000])>>
    [] path = "mala.csv" ->
         <<csv_row(1000, [c \in {"E2", "F1"} |->
                            CASE c = "E2" -> 300 [] c = "F1" -> NOT_A_NUMBER])>>

RECURSIVE load_rows(_, _, _)
\* The reader loop of cargar_tabla_mpe_csv from row i on.
load_rows(rows, i, table) ==
  IF i > Len(rows) THEN [exc |-> NoExc, table |-> table]
  ELSE
    LET r == rows[i]
        kept == {c \in DOMAIN r.cells : r.cells[c] # BLANK}
    IN IF r.mass_g = BLANK \/ r.mass_g = NOT_A_NUMBER
         THEN [exc |-> "ValueError", table |-> table]
       ELSE IF \E c \in kept : r.cells[c] = NOT_A_NUMBER
         THEN [exc |-> "ValueError", table |-> table]
       ELSE load_rows(rows, i + 1,
              [m \in DOMAIN table \cup {r.mass_g} |->
                 IF m = r.mass_g THEN [c \in kept |-> r.cells[c]] ELSE table[m]])

\* cargar_tabla_mpe_csv(path).
cargar_tabla_mpe_csv(path) == load_rows(csv_file(path), 1, <<>>)

(***************************************************************************)
(* main.                                                                   *)
(***************************************************************************)

\* A printed line.
line(kind, clase, basis, val) ==
  [kind |-> kind, clase |-> clase, basis |-> basis, val |-> val]

\* The outcome of a block of main: ret is the value returned (None: the block
\* falls through), exc the exception that left main, out and err the lines
\* printed, sel the calls of seleccionar_clase_pesa with their results.
outcome(ret, exc, out, err, sel) ==
  [ret |-> ret, exc |-> exc, out |-> out, err |-> err, sel |-> sel]

\* tabla = cargar_tabla_mpe_csv(args.mpe_csv) if args.mpe_csv else None
load_table(args) ==
  IF args.mpe_csv # NoPath
    THEN LET r == cargar_tabla_mpe_csv(args.mpe_csv)
         IN [exc |-> r.exc, tabla |-> IF r.exc = NoExc THEN {r.table} ELSE {}]
    ELSE [exc |-> NoExc, tabla |-> {}]

\* mmin_block with a slip: the missing --s error returns the code of the
\* missing --mass-g error.
mmin_block_codigo_repetido(args) ==
  IF args.calc \in {"mmin", "both"}
    THEN IF args.s = None
           THEN outcome(3, NoExc, <<>>, <<"[ERROR] Para mmin, especifica --s (g).">>, <<>>)
         ELSE LET mmin == masa_minima(args.s, args.d, args.rrel, args.k, TRUE)
              IN IF mmin.exc # NoExc
                   THEN outcome(None, mmin.exc, <<>>, <<>>, <<>>)
                   ELSE outcome(None, NoExc,
                                <<line("m_min", NoClass, "None", mmin.val)>>, <<>>, <<>>)
    ELSE outcome(None, NoExc, <<>>, <<>>, <<>>)

\* if args.calc in ("mmin", "both"): ...
mmin_block(args) ==
  IF args.calc \in {"mmin", "both"}
    THEN IF args.s = None
           THEN outcome(2, NoExc, <<>>, <<"[ERROR] Para mmin, especifica --s (g).">>, <<>>)
         ELSE LET mmin == masa_minima(args.s, args.d, args.rrel, args.k, TRUE)
              IN IF mmin.exc # NoExc
                   THEN outcome(None, mmin.exc, <<>>, <<>>, <<>>)
                   ELSE outcome(None, NoExc,
                                <<line("m_min", NoClass, "None", mmin.val)>>, <<>>, <<>>)
    ELSE outcome(None, NoExc, <<>>, <<>>, <<>>)

\* if args.calc in ("clase", "both"): ... ; return 0
clase_block(args, tabla) ==
  IF args.calc \in {"clase", "both"}
    THEN
      IF args.mass_g = None
        THEN outcome(3, NoExc, <<>>, <<"[ERROR] Para clase, especifica --mass-g (g).">>, <<>>)
      ELSE IF args.umbral_std_g = None /\ args.tur # None /\ (args.s = None \/ args.d = None)
        THEN outcome(4, NoExc, <<>>, <<"[ERROR] Con --tur debes dar --s y --d.">>, <<>>)
      ELSE IF args.umbral_std_g = None /\ args.tur # None /\ args.tur = 0
        THEN outcome(None, "ZeroDivisionError", <<>>, <<>>, <<>>)
      ELSE
        LET umbral_std_g ==
              IF args.umbral_std_g = None /\ args.tur # None
                THEN truediv(sqrt(args.s * args.s + (args.d * args.d) \div 12) * 10, args.tur)
                ELSE args.umbral_std_g
            umbral_mpe_mg == args.umbral_mpe_mg
        IN IF umbral_std_g = None /\ umbral_mpe_mg = None
             THEN outcome(5, NoExc, <<>>,
                          <<"[ERROR] Da --umbral-std-g o --umbral-mpe-mg o --tur.">>, <<>>)
           ELSE
             LET r == seleccionar_clase_pesa(args.mass_g, umbral_std_g, umbral_mpe_mg,
                                             tabla, CLASSES_ORDER)
                 sel == <<[std |-> umbral_std_g, mpe |-> umbral_mpe_mg, res |-> r]>>
             IN IF r.ret = NoClass
                  THEN outcome(0, NoExc, <<line("no_clase", NoClass, "None", None)>>,
                               <<>>, sel)
                  ELSE outcome(0, NoExc,
                         <<IF umbral_std_g # None
                             THEN line("clase", r.ret, "std", umbral_std_g)
                             ELSE line("clase", r.ret, "mpe", umbral_mpe_mg)>>,
                         <<>>, sel)
    ELSE outcome(0, NoExc, <<>>, <<>>, <<>>)

(***************************************************************************)
(* The state machine. A behaviour is either one run of main on a command   *)
(* line (pc goes "load", "mmin", "clase", "exit") or a client calling the  *)
(* library functions (pc goes "api", "returned"; call holds the call).     *)
(***************************************************************************)

VARIABLES pc, args, tabla, out, err, ret, exc, sel, call

vars == <<pc, args, tabla, out, err, ret, exc, sel, call>>

\* The command lines: every option absent or given, with the values that make
\* each branch of main happen. k and rrel have argparse defaults.
ArgsSpace ==
  [calc : {"mmin", "clase", "both"},
   s : {None, 5000},
   d : {None, 10000},
   k : {2},
   rrel : {0 - 1, 0, 1},
   mass_g : {None, 2000, 100000},
   tur : {None, 0, 4},
   umbral_std_g : {None, 500000},
   umbral_mpe_mg : {None, 10, 600},
   mpe_csv : {NoPath, "vacia.csv", "tabla.csv", "mala.csv"}]

DefaultArgs ==
  [calc |-> "both", s |-> None, d |-> None, k |-> 2, rrel |-> 1, mass_g |-> None,
   tur |-> None, umbral_std_g |-> None, umbral_mpe_mg |-> None, mpe_csv |-> NoPath]

NoCall == [fn |-> "none", in |-> <<>>, res |-> <<>>]

\* The tables a client passes: keys 10, 100, ... (MaxRows of them), each key
\* absent or present, each of E2 and F1 absent or present in a row.
GenKeys == {10 ^ i : i \in 1..MaxRows}

GenValue(key, clase) ==
  LET i == CHOOSE j \in 1..MaxRows : 10 ^ j = key
  IN IF clase = "E2" THEN 10 * i * i + 10 ELSE 40 * i * i + 40

GenRowsOf(key) ==
  {[c \in C |-> GenValue(key, c)] : C \in SUBSET {"E2", "F1"}}

GenTables ==
  UNION {{t \in [K -> UNION {GenRowsOf(k) : k \in GenKeys}] :
            \A k \in K : t[k] \in GenRowsOf(k)} : K \in SUBSET GenKeys}

ApiTables == GenTables \cup {MPE_TABLE_EXAMPLE_MG}

ApiMasses == {5, 1414, 2000, 100000} \cup GenKeys \cup {3 * k : k \in GenKeys}

ApiClasses == {"E1", "E2", "F1", "M3"}

ApiOrders == {CLASSES_ORDER, <<"F1", "E2">>, <<"M1", "F1", "E1">>}

\* Pairs <<umbral_std_g, umbral_mpe_mg>>.
ApiUmbrales ==
  {<<None, None>>, <<None, 60>>, <<None, 250>>, <<None, 10000>>,
   <<30000, None>>, <<30000, 600>>}

Init ==
  /\ \/ pc = "load" /\ args \in ArgsSpace
     \/ pc = "api" /\ args = DefaultArgs
  /\ tabla = {}
  /\ out = <<>>
  /\ err = <<>>
  /\ ret = None
  /\ exc = NoExc
  /\ sel = <<>>
  /\ call = NoCall

\* A block of main has run: an exception leaves main (the interpreter exits
\* with status 1), a return value ends it, otherwise the next block follows.
Finish(o, next) ==
  /\ out' = out \o o.out
  /\ err' = err \o o.err
  /\ sel' = sel \o o.sel
  /\ exc' = o.exc
  /\ ret' = IF o.exc # NoExc THEN 1 ELSE o.ret
  /\ pc' = IF o.exc # NoExc \/ o.ret # None THEN "exit" ELSE next

\* main, line 143.
LoadTable ==
  /\ pc = "load"
  /\ LET r == load_table(args)
     IN /\ tabla' = r.tabla
        /\ Finish(outcome(None, r.exc, <<>>, <<>>, <<>>), "mmin")
  /\ UNCHANGED <<args, call>>

\* main, lines 145-149.
MminBlock ==
  /\ pc = "mmin"
  /\ Finish(mmin_block(args), "clase")
  /\ UNCHANGED <<args, tabla, call>>

\* main, lines 151-170.
ClaseBlock ==
  /\ pc = "clase"
  /\ Finish(clase_block(args, tabla), "exit")
  /\ UNCHANGED <<args, tabla, call>>

\* A client's call and its result; the functions are pure, so one call per
\* behaviour covers every sequence of calls.
Called(fn, in, res) == [fn |-> fn, in |-> in, res |-> res]

CallSEfectiva ==
  /\ pc = "api"
  /\ pc' = "returned"
  /\ \E s \in {5000, 8000}, d \in {None, 0, 10000}, incl \in BOOLEAN :
       call' = Called("s_efectiva", <<s, d, incl>>, s_efectiva(s, d, incl))
  /\ UNCHANGED <<args, tabla, out, err, ret, exc, sel>>

CallMasaMinima ==
  /\ pc = "api"
  /\ pc' = "returned"
  /\ \E s \in {5000}, d \in {None, 10000}, r_rel \in {0 - 2, 0 - 1, 0, 1, 2},
        k \in {1, 2}, incl \in BOOLEAN :
       call' = Called("masa_minima", <<s, d, r_rel, k, incl>>,
                      masa_minima(s, d, r_rel, k, incl))
  /\ UNCHANGED <<args, tabla, out, err, ret, exc, sel>>

CallCargar ==
  /\ pc = "api"
  /\ pc' = "returned"
  /\ \E path \in {"vacia.csv", "tabla.csv", "mala.csv"} :
       call' = Called("cargar_tabla_mpe_csv", <<path>>, cargar_tabla_mpe_csv(path))
  /\ UNCHANGED <<args, tabla, out, err, ret, exc, sel>>

CallMpeMgPara ==
  /\ pc = "api"
  /\ pc' = "returned"
  /\ \E mass_g \in ApiMasses, clase \in ApiClasses, t \in ApiTables :
       call' = Called("mpe_mg_para", <<mass_g, clase, t>>, mpe_mg_para(mass_g, clase, t))
  /\ UNCHANGED <<args, tabla, out, err, ret, exc, sel>>

CallSeleccionar ==
  /\ pc = "api"
  /\ pc' = "returned"
  /\ \E mass_g \in ApiMasses, u \in ApiUmbrales,
        t \in {{}} \cup {{x} : x \in ApiTables}, orden \in ApiOrders :
       call' = Called("seleccionar_clase_pesa", <<mass_g, u[1], u[2], t, orden>>,
                      seleccionar_clase_pesa(mass_g, u[1], u[2], t, orden))
  /\ UNCHANGED <<args, tabla, out, err, ret, exc, sel>>

Next ==
  \/ LoadTable
  \/ MminBlock
  \/ ClaseBlock
  \/ CallSEfectiva
  \/ CallMasaMinima
  \/ CallCargar
  \/ CallMpeMgPara
  \/ CallSeleccionar

Spec == Init /\ [][Next]_vars

(***************************************************************************)
(* Properties.                                                             *)
(***************************************************************************)

IsCall(fn) == pc = "returned" /\ call.fn = fn

\* The table a call of seleccionar_clase_pesa is about: the one supplied, the
\* built-in one when none is supplied.
SuppliedTable(t) == IF t = {} THEN MPE_TABLE_EXAMPLE_MG ELSE CHOOSE x \in t : TRUE

\* A class meets the threshold: on the MPE basis when umbral_mpe_mg is given,
\* on the standard-uncertainty basis otherwise.
Meets(mpe_mg, us, um) ==
  IF um # None THEN mpe_mg <= um ELSE mpe_mg * 577 <= us

Qualifies(mass_g, clase, us, um, t) ==
  /\ mpe_mg_para(mass_g, clase, t) # None
  /\ Meets(mpe_mg_para(mass_g, clase, t), us, um)

\* The first class of orden that qualifies, NoClass when none does.
FirstQualifying(mass_g, us, um, t, orden) ==
  IF \E i \in 1..Len(orden) : Qualifies(mass_g, orden[i], us, um, t)
    THEN orden[CHOOSE i \in 1..Len(orden) :
                 /\ Qualifies(mass_g, orden[i], us, um, t)
                 /\ \A j \in 1..(i - 1) : ~Qualifies(mass_g, orden[j], us, um, t)]
    ELSE NoClass

\* C1: seleccionar_clase_pesa returns the first class of clases_orden whose MPE
\* in the given table is available and meets the threshold, and no class
\* exactly when there is none; selecting for 2000 g with umbral_mpe_mg = 60 mg
\* on the built-in table gives E2.
C1_FirstQualifying ==
  IsCall("seleccionar_clase_pesa") /\ call.res.exc = NoExc =>
    /\ call.res.ret = FirstQualifying(call.in[1], call.in[2], call.in[3],
                                      SuppliedTable(call.in[4]), call.in[5])
    /\ (call.in[1] = 2000 /\ call.in[2] = None /\ call.in[3] = 600
          /\ call.in[4] = {} /\ call.in[5] = CLASSES_ORDER => call.res.ret = "E2")

\* C2: with the built-in table and CLASSES_ORDER the class returned is the
\* loosest one meeting the threshold: no class with a larger available MPE at
\* that mass meets the threshold too.
C2_LoosestQualifying ==
  IsCall("seleccionar_clase_pesa") /\ call.in[4] \in {{}, {MPE_TABLE_EXAMPLE_MG}}
    /\ call.in[5] = CLASSES_ORDER /\ call.res.ret # NoClass =>
    \A c \in {CLASSES_ORDER[i] : i \in 1..Len(CLASSES_ORDER)} :
      ~ /\ Qualifies(call.in[1], c, call.in[2], call.in[3], MPE_TABLE_EXAMPLE_MG)
        /\ mpe_mg_para(call.in[1], c, MPE_TABLE_EXAMPLE_MG)
             > mpe_mg_para(call.in[1], call.res.ret, MPE_TABLE_EXAMPLE_MG)

\* A run of main that selects a class.
SelectsClass == args.calc \in {"clase", "both"}

\* C3: both threshold bases at once are rejected: seleccionar_clase_pesa raises
\* and returns no class, and a run of main given --umbral-mpe-mg together with
\* --umbral-std-g or --tur ends with a non-zero exit code and reports no class.
C3_BothBasesRejected ==
  /\ IsCall("seleccionar_clase_pesa") /\ call.in[2] # None /\ call.in[3] # None =>
       call.res.exc # NoExc /\ call.res.ret = NoClass
  /\ pc = "exit" /\ SelectsClass /\ args.umbral_mpe_mg # None
       /\ (args.umbral_std_g # None \/ args.tur # None) =>
       ret # 0 /\ \A i \in 1..Len(out) : out[i].kind # "clase"

NoBasis == args.umbral_std_g = None /\ args.umbral_mpe_mg = None /\ args.tur = None

\* C4: with neither threshold basis seleccionar_clase_pesa raises before it
\* looks up any class, and main, given none of --umbral-std-g, --umbral-mpe-mg
\* and --tur, never calls seleccionar_clase_pesa and returns 5 once the class
\* selection is reached.
C4_NeitherBasis ==
  /\ IsCall("seleccionar_clase_pesa") /\ call.in[2] = None /\ call.in[3] = None =>
       call.res.exc = "ValueError" /\ call.res.probed = <<>> /\ call.res.ret = NoClass
  /\ pc # "api" /\ pc # "returned" /\ NoBasis =>
       /\ sel = <<>>
       /\ (pc = "exit" /\ SelectsClass /\ args.mass_g # None /\ exc = NoExc /\ ret # 2
             => ret = 5)

C4_Witness ==
  pc = "exit" /\ NoBasis /\ ret = 5 /\ sel = <<>> /\ args.calc = "both" /\ Len(out) = 1

MissingS == args.calc \in {"mmin", "both"} /\ args.s = None
MissingMass == SelectsClass /\ args.mass_g = None
MissingTurInputs ==
  SelectsClass /\ args.umbral_std_g = None /\ args.tur # None
    /\ (args.s = None \/ args.d = None)
MissingBasis == SelectsClass /\ NoBasis

C6_NoPartialOutput ==
  pc = "exit" /\ ret \in {2, 3, 4, 5} => out = <<>>

\* C7: masa_minima fails for every r_rel <= 0 and never returns a number then.
C7_DomainError ==
  IsCall("masa_minima") /\ call.in[3] <= 0 => call.res.exc # NoExc

\* C8: the threshold basis main prints with the recommended class is the basis
\* seleccionar_clase_pesa used to qualify it.
C8_ReportedBasis ==
  \A i \in 1..Len(out) :
    out[i].kind = "clase" => Len(sel) = 1 /\ out[i].basis = sel[1].res.basis

\* Two keys of a table with no key between them.
Adjacent(t, x0, x1) ==
  x0 \in DOMAIN t /\ x1 \in DOMAIN t /\ x0 < x1
    /\ ~ \E x \in DOMAIN t : x0 < x /\ x < x1

\* C9: mpe_mg_para returns a value only for a key whose row has the class (the
\* stored value) or for a mass strictly between two adjacent keys whose rows
\* both have the class; below the smallest key, above the largest one, and for
\* a key whose row lacks the class it returns None.
C9_NoExtrapolation ==
  IsCall("mpe_mg_para") =>
    LET mass_g == call.in[1]
        clase == call.in[2]
        t == call.in[3]
        exact == mass_g \in DOMAIN t /\ clase \in DOMAIN t[mass_g]
        bracketed ==
          \E x0 \in DOMAIN t, x1 \in DOMAIN t :
            /\ Adjacent(t, x0, x1) /\ x0 < mass_g /\ mass_g < x1
            /\ clase \in DOMAIN t[x0] /\ clase \in DOMAIN t[x1]
    IN /\ call.res # None => exact \/ bracketed
       /\ exact => call.res = t[mass_g][clase]
       /\ (\A x \in DOMAIN t : mass_g < x) \/ (\A x \in DOMAIN t : mass_g > x)
            => call.res = None
       /\ mass_g \in DOMAIN t /\ clase \notin DOMAIN t[mass_g] => call.res = None

C9_Witness ==
  /\ IsCall("mpe_mg_para") /\ call.in[1] = 30 /\ call.in[2] = "F1"
  /\ DOMAIN call.in[3] = {10, 100}
  /\ "F1" \in DOMAIN call.in[3][10] /\ "F1" \notin DOMAIN call.in[3][100]
  /\ call.res = None

\* C10: when --mpe-csv supplies a table, the class main gets from
\* seleccionar_clase_pesa is one the supplied table gives an MPE for at that
\* mass; a supplied table with no rows yields no class.
C10_SuppliedTableOnly ==
  pc = "exit" /\ args.mpe_csv # NoPath /\ Len(sel) = 1 /\ sel[1].res.ret # NoClass =>
    mpe_mg_para(args.mass_g, sel[1].res.ret, CHOOSE x \in tabla : TRUE) # None

====
